---- MODULE Spec2Model ----
(***************************************************************************)
(* freefall/base.py: BaseDownloader._process_request run by several        *)
(* concurrent callers on ONE request.  The status store is the persisted   *)
(* dict `status`; an exclusive session (`with self._exclusive_session`)    *)
(* is one atomic step.  Time is counted in ticks of 1/TicksPerSecond s so  *)
(* that `replace(microsecond=0)` has something to truncate.                *)
(***************************************************************************)
EXTENDS Integers, FiniteSets, Sequences, TLC

\* ---------------------------------------------------------------- bounds
NumProcs == 2
TicksPerSecond == 2
MaxTime == 3
NumRequests == 2
MaxRetries == 2

\* --------------------------------------------------- program constants
GraceSeconds == 1

Procs == 1..NumProcs
None == -1
Deadlines == 0..(MaxTime + TicksPerSecond)

VARIABLES
    status,     \* the persisted status dict of the request
    now,        \* utcnow(), in ticks
    pc,         \* per caller: position inside _process_request
    local,      \* per caller: the local variable `status`
    loaded,     \* per caller: what line 82 loaded for the current call
    exc,        \* per caller: what _force_download did (pending exception)
    outcome,    \* how the most recently ended call left _process_request
    driver,     \* the loop of download(): position, ignore_exc, last result
    retries     \* how often _force_download has not come to an end yet

vars == <<status, now, pc, local, loaded, exc, outcome, driver, retries>>

aux == <<driver, retries>>

\* status as created on first access: every flag false, waiting_until absent
EmptyStatus ==
    [processing |-> FALSE, finished |-> FALSE, failed |-> FALSE,
     waiting_until |-> None]

NoExc == [kind |-> "none", waiting_until |-> None]

NoOutcome ==
    [raised |-> "none", phase |-> "none", signal |-> "none",
     waiting_until |-> None, loaded |-> EmptyStatus]

\* ------------------------------------------------------ exception classes
\* class TemporaryResourceError(ResourceError); everything is a BaseException
IsInstance(kind, cls) ==
    CASE cls = "PartiallyCompleted"     -> kind = "PartiallyCompleted"
      [] cls = "TemporaryResourceError" -> kind = "TemporaryResourceError"
      [] cls = "ResourceError"          ->
            kind \in {"ResourceError", "TemporaryResourceError"}
      [] cls = "AlreadyProcessingError" -> kind = "AlreadyProcessingError"
      [] cls = "AlreadyFinishedError"   -> kind = "AlreadyFinishedError"
      [] cls = "ValueError"             -> kind = "ValueError"
      [] OTHER                          -> kind # "none"

\* self._waiting_until = try_again_later or utcnow()
waiting_until(try_again_later, t) ==
    IF try_again_later = None THEN t ELSE try_again_later

\* what _force_download can do: return, or raise one of the four kinds
Signals ==
    {"none", "PartiallyCompleted", "TemporaryResourceError",
     "ResourceError", "BaseException"}

\* a datetime without tzinfo showing tick t; aware datetimes are the
\* ticks 0, 1, 2, ... themselves
Naive(t) == 0 - 2 - t

NaiveDeadlines == {Naive(t) : t \in Deadlines}

\* self._waiting_until.tzinfo
tzinfo(d) == d >= 0

RaiseUnchecked(kind, try_again_later, t) ==
    IF kind \in {"PartiallyCompleted", "TemporaryResourceError"}
    THEN [kind |-> kind, waiting_until |-> waiting_until(try_again_later, t)]
    ELSE [kind |-> kind, waiting_until |-> None]

\* constructing the exception _force_download raises: __init__ of lines
\* 22-26 and 34-38 raises ValueError('no timezone') instead
Raise(kind, try_again_later, t) ==
    IF kind \in {"PartiallyCompleted", "TemporaryResourceError"}
    THEN IF tzinfo(waiting_until(try_again_later, t))
         THEN [kind |-> kind,
               waiting_until |-> waiting_until(try_again_later, t)]
         ELSE [kind |-> "ValueError", waiting_until |-> None]
    ELSE [kind |-> kind, waiting_until |-> None]

\* ------------------------------------------------------------- admission
\* utcnow().replace(microsecond=0)
Truncate(t) == (t \div TicksPerSecond) * TicksPerSecond

\* now = utcnow().replace(microsecond=0) + timedelta(seconds=1)
NowWithGrace(t) == Truncate(t) + GraceSeconds * TicksPerSecond

StillWaitingInclusive(st, t) ==
    st.waiting_until # None /\ st.waiting_until >= Truncate(t)

StillWaitingNever(st, t) == FALSE

StillWaitingForever(st, t) == st.waiting_until # None

\* status.get('waiting_until', now) > now
StillWaiting(st, t) ==
    (IF st.waiting_until = None THEN NowWithGrace(t) ELSE st.waiting_until)
        > NowWithGrace(t)

AdmissionChecksNoFinished(st, t) ==
    IF st.processing THEN "AlreadyProcessingError"
    ELSE IF StillWaiting(st, t) THEN "TemporaryResourceError"
    ELSE "admitted"

AdmissionChecksNoProcessing(st, t) ==
    IF st.finished THEN "AlreadyFinishedError"
    ELSE IF StillWaiting(st, t) THEN "TemporaryResourceError"
    ELSE "admitted"

AdmissionChecksReclaimsStale(st, t) ==
    IF st.processing /\ (st.waiting_until = None \/ st.waiting_until > t)
    THEN "AlreadyProcessingError"
    ELSE IF st.finished THEN "AlreadyFinishedError"
    ELSE IF StillWaiting(st, t) THEN "TemporaryResourceError"
    ELSE "admitted"

\* the three checks of lines 84-93, in the code's order
AdmissionChecks(st, t) ==
    IF st.processing THEN "AlreadyProcessingError"
    ELSE IF st.finished THEN "AlreadyFinishedError"
    ELSE IF StillWaiting(st, t) THEN "TemporaryResourceError"
    ELSE "admitted"

MarkProcessingKeepsFailed(st) ==
    [st EXCEPT !.processing = TRUE, !.finished = FALSE]

\* lines 95-97
MarkProcessing(st) ==
    [st EXCEPT !.processing = TRUE, !.finished = FALSE, !.failed = FALSE]

\* -------------------------------------------------------------- resolution
HandlersNoFinish(st, e) ==
    IF IsInstance(e.kind, "PartiallyCompleted")
    THEN [st EXCEPT !.waiting_until = e.waiting_until]
    ELSE IF IsInstance(e.kind, "TemporaryResourceError")
    THEN [st EXCEPT !.waiting_until = e.waiting_until, !.failed = TRUE]
    ELSE IF IsInstance(e.kind, "ResourceError")
    THEN [st EXCEPT !.finished = TRUE, !.failed = TRUE]
    ELSE IF IsInstance(e.kind, "BaseException")
    THEN [st EXCEPT !.failed = TRUE]
    ELSE st

HandlersPartialFails(st, e) ==
    IF IsInstance(e.kind, "PartiallyCompleted")
    THEN [st EXCEPT !.waiting_until = e.waiting_until, !.failed = TRUE]
    ELSE IF IsInstance(e.kind, "TemporaryResourceError")
    THEN [st EXCEPT !.waiting_until = e.waiting_until, !.failed = TRUE]
    ELSE IF IsInstance(e.kind, "ResourceError")
    THEN [st EXCEPT !.finished = TRUE, !.failed = TRUE]
    ELSE IF IsInstance(e.kind, "BaseException")
    THEN [st EXCEPT !.failed = TRUE]
    ELSE [st EXCEPT !.finished = TRUE]

HandlersHardNotFinished(st, e) ==
    IF IsInstance(e.kind, "PartiallyCompleted")
    THEN [st EXCEPT !.waiting_until = e.waiting_until]
    ELSE IF IsInstance(e.kind, "TemporaryResourceError")
    THEN [st EXCEPT !.waiting_until = e.waiting_until, !.failed = TRUE]
    ELSE IF IsInstance(e.kind, "BaseException")
    THEN [st EXCEPT !.failed = TRUE]
    ELSE [st EXCEPT !.finished = TRUE]

HandlersResourceFirst(st, e) ==
    IF IsInstance(e.kind, "PartiallyCompleted")
    THEN [st EXCEPT !.waiting_until = e.waiting_until]
    ELSE IF IsInstance(e.kind, "ResourceError")
    THEN [st EXCEPT !.finished = TRUE, !.failed = TRUE]
    ELSE IF IsInstance(e.kind, "TemporaryResourceError")
    THEN [st EXCEPT !.waiting_until = e.waiting_until, !.failed = TRUE]
    ELSE IF IsInstance(e.kind, "BaseException")
    THEN [st EXCEPT !.failed = TRUE]
    ELSE [st EXCEPT !.finished = TRUE]

HandlersUnexpectedFinishes(st, e) ==
    IF IsInstance(e.kind, "PartiallyCompleted")
    THEN [st EXCEPT !.waiting_until = e.waiting_until]
    ELSE IF IsInstance(e.kind, "TemporaryResourceError")
    THEN [st EXCEPT !.waiting_until = e.waiting_until, !.failed = TRUE]
    ELSE IF IsInstance(e.kind, "ResourceError")
    THEN [st EXCEPT !.finished = TRUE, !.failed = TRUE]
    ELSE IF IsInstance(e.kind, "BaseException")
    THEN [st EXCEPT !.finished = TRUE, !.failed = TRUE]
    ELSE [st EXCEPT !.finished = TRUE]

\* the except / else clauses of lines 106-120, first matching clause wins
Handlers(st, e) ==
    IF IsInstance(e.kind, "PartiallyCompleted")
    THEN [st EXCEPT !.waiting_until = e.waiting_until]
    ELSE IF IsInstance(e.kind, "TemporaryResourceError")
    THEN [st EXCEPT !.waiting_until = e.waiting_until, !.failed = TRUE]
    ELSE IF IsInstance(e.kind, "ResourceError")
    THEN [st EXCEPT !.finished = TRUE, !.failed = TRUE]
    ELSE IF IsInstance(e.kind, "BaseException")
    THEN [st EXCEPT !.failed = TRUE]
    ELSE [st EXCEPT !.finished = TRUE]

CleanupOnSuccessOnly(st, e) ==
    IF e.kind = "none" THEN [st EXCEPT !.processing = FALSE] ELSE st

CleanupUnlessFailed(st, e) ==
    IF st.failed THEN st ELSE [st EXCEPT !.processing = FALSE]

\* finally: status['processing'] = False   (line 122)
Cleanup(st, e) == [st EXCEPT !.processing = FALSE]

\* PartiallyCompleted is swallowed (no raise in its clause); the other
\* clauses end in `raise`
Reraised(e) ==
    IF e.kind \in {"none", "PartiallyCompleted"} THEN "none" ELSE e.kind

\* ------------------------------------------------------------------- Init
\* download() not running
NoDriver ==
    [state |-> "off", pos |-> 0, ignore_exc |-> {},
     raised |-> "none", phase |-> "none"]

InitRunner ==
    /\ status = EmptyStatus
    /\ now = 0
    /\ pc = [p \in Procs |-> "idle"]
    /\ local = [p \in Procs |-> EmptyStatus]
    /\ loaded = [p \in Procs |-> EmptyStatus]
    /\ exc = [p \in Procs |-> NoExc]
    /\ outcome = NoOutcome

Init ==
    /\ InitRunner
    /\ driver = NoDriver
    /\ retries = 0

\* ---------------------------------------------------------------- actions
\* the clock advances
Tick ==
    /\ now < MaxTime
    /\ now' = now + 1
    /\ UNCHANGED <<status, pc, local, loaded, exc, outcome>>

AdmissionSavesBeforeDeadlineCheck(p) ==
    /\ pc[p] = "idle"
    /\ LET verdict == AdmissionChecks(status, now) IN
       IF verdict = "admitted"
       THEN /\ status' = MarkProcessing(status)
            /\ local' = [local EXCEPT ![p] = MarkProcessing(status)]
            /\ loaded' = [loaded EXCEPT ![p] = status]
            /\ pc' = [pc EXCEPT ![p] = "download"]
            /\ UNCHANGED outcome
       ELSE /\ outcome' =
                [raised |-> verdict, phase |-> "admission",
                 signal |-> "none",
                 waiting_until |->
                    IF verdict = "TemporaryResourceError"
                    THEN waiting_until(status.waiting_until, now)
                    ELSE None,
                 loaded |-> status]
            /\ status' = IF verdict = "TemporaryResourceError"
                         THEN MarkProcessing(status) ELSE status
            /\ UNCHANGED <<local, loaded, pc>>
    /\ UNCHANGED <<now, exc>>

\* lines 81-98: the admission session of a call of _process_request
Admission(p) ==
    /\ pc[p] = "idle"
    /\ LET verdict == AdmissionChecks(status, now) IN
       IF verdict = "admitted"
       THEN /\ status' = MarkProcessing(status)
            /\ local' = [local EXCEPT ![p] = MarkProcessing(status)]
            /\ loaded' = [loaded EXCEPT ![p] = status]
            /\ pc' = [pc EXCEPT ![p] = "download"]
            /\ UNCHANGED outcome
       ELSE /\ outcome' =
                [raised |-> verdict, phase |-> "admission",
                 signal |-> "none",
                 waiting_until |->
                    IF verdict = "TemporaryResourceError"
                    THEN waiting_until(status.waiting_until, now)
                    ELSE None,
                 loaded |-> status]
            /\ UNCHANGED <<status, local, loaded, pc>>
    /\ UNCHANGED <<now, exc>>

\* line 102: the Work Executor returns or raises, outside any session
force_download(p) ==
    /\ pc[p] = "download"
    /\ \E kind \in Signals,
          try_again_later \in Deadlines \cup NaiveDeadlines \cup {None} :
          /\ kind \notin {"PartiallyCompleted", "TemporaryResourceError"}
                => try_again_later = None
          /\ exc' = [exc EXCEPT ![p] = Raise(kind, try_again_later, now)]
    /\ pc' = [pc EXCEPT ![p] = "finally"]
    /\ UNCHANGED <<status, now, local, loaded, outcome>>

\* lines 103-105: the session that reloads the status
load_status(p) ==
    /\ pc[p] = "finally"
    /\ local' = [local EXCEPT ![p] = status]
    /\ pc' = [pc EXCEPT ![p] = "except"]
    /\ UNCHANGED <<status, now, loaded, exc, outcome>>

\* lines 106-125: the handlers on the local status, the cleanup, the session
\* that saves it, and the return or re-raise (the locals of the call die)
save_status(p) ==
    /\ pc[p] = "except"
    /\ status' = Cleanup(Handlers(local[p], exc[p]), exc[p])
    /\ local' = [local EXCEPT ![p] = EmptyStatus]
    /\ outcome' =
          [raised |-> Reraised(exc[p]), phase |-> "execution",
           signal |-> exc[p].kind,
           waiting_until |-> exc[p].waiting_until,
           loaded |-> loaded[p]]
    /\ exc' = [exc EXCEPT ![p] = NoExc]
    /\ loaded' = [loaded EXCEPT ![p] = EmptyStatus]
    /\ pc' = [pc EXCEPT ![p] = "idle"]
    /\ UNCHANGED now

Next ==
    \/ Tick /\ UNCHANGED aux
    \/ \E p \in Procs : Admission(p) /\ UNCHANGED aux
    \/ \E p \in Procs : force_download(p) /\ UNCHANGED aux
    \/ \E p \in Procs : load_status(p) /\ UNCHANGED aux
    \/ \E p \in Procs : save_status(p) /\ UNCHANGED aux

Spec == Init /\ [][Next]_vars

\* ------------------------------------------------------------------ crash
\* the operating-system process running the call of caller p is terminated
\* between the admission save (line 98) and the resolution save (line 125):
\* nothing more of the call runs; a new process may call again later
Crash(p) ==
    /\ pc[p] \in {"download", "finally", "except"}
    /\ pc' = [pc EXCEPT ![p] = "idle"]
    /\ local' = [local EXCEPT ![p] = EmptyStatus]
    /\ loaded' = [loaded EXCEPT ![p] = EmptyStatus]
    /\ exc' = [exc EXCEPT ![p] = NoExc]
    /\ UNCHANGED <<status, now, outcome>>

NextCrash ==
    \/ Next
    \/ \E p \in Procs : Crash(p) /\ UNCHANGED aux

SpecCrash == Init /\ [][NextCrash]_vars

\* ------------------------------------------------------------ caller loop
\* _force_download comes to an end (returns, or raises a general
\* ResourceError) after at most MaxRetries calls that did not, and the
\* deadlines it asks for are times the clock reaches
force_download_finitely(p) ==
    /\ force_download(p)
    /\ IF exc'[p].kind \in {"none", "ResourceError"}
       THEN retries' = retries
       ELSE /\ retries < MaxRetries
            /\ retries' = retries + 1
            /\ exc'[p].waiting_until <= MaxTime
    /\ UNCHANGED driver

NextLoop ==
    \/ Tick /\ UNCHANGED aux
    \/ \E p \in Procs : Admission(p) /\ UNCHANGED aux
    \/ \E p \in Procs : force_download_finitely(p)
    \/ \E p \in Procs : load_status(p) /\ UNCHANGED aux
    \/ \E p \in Procs : save_status(p) /\ UNCHANGED aux

\* callers that keep calling _process_request, a clock that keeps going, no
\* crash
SpecLoop ==
    /\ Init
    /\ [][NextLoop]_vars
    /\ WF_vars(Tick /\ UNCHANGED aux)
    /\ \A p \in Procs :
          /\ WF_vars(Admission(p) /\ UNCHANGED aux)
          /\ WF_vars(force_download_finitely(p))
          /\ WF_vars(load_status(p) /\ UNCHANGED aux)
          /\ WF_vars(save_status(p) /\ UNCHANGED aux)

\* ----------------------------------------------------------- download()
\* the caller whose thread runs download()
Downloader == 1

\* values of the parameter ignore_exc: (), the default ResourceError,
\* TemporaryResourceError, BaseException
IgnoreChoices ==
    {{}, {"ResourceError"}, {"TemporaryResourceError"}, {"BaseException"}}

PropagatesUnlessAnyError(kind, ignore_exc) ==
    IF kind = "none" THEN FALSE
    ELSE IF IsInstance(kind, "AlreadyFinishedError") THEN FALSE
    ELSE IF IsInstance(kind, "AlreadyProcessingError") THEN FALSE
    ELSE IF IsInstance(kind, "TemporaryResourceError") THEN FALSE
    ELSE IF ignore_exc # {} THEN FALSE
    ELSE TRUE

PropagatesTemporary(kind, ignore_exc) ==
    IF kind = "none" THEN FALSE
    ELSE IF IsInstance(kind, "AlreadyFinishedError") THEN FALSE
    ELSE IF IsInstance(kind, "AlreadyProcessingError") THEN FALSE
    ELSE IF \E cls \in ignore_exc : IsInstance(kind, cls) THEN FALSE
    ELSE TRUE

PropagatesAlreadyProcessing(kind, ignore_exc) ==
    IF kind = "none" THEN FALSE
    ELSE IF IsInstance(kind, "AlreadyFinishedError") THEN FALSE
    ELSE IF IsInstance(kind, "TemporaryResourceError") THEN FALSE
    ELSE IF \E cls \in ignore_exc : IsInstance(kind, cls) THEN FALSE
    ELSE TRUE

\* lines 71-78: the except clauses of the outer try, first match wins; the
\* inner try (lines 53-70) logs and re-raises everything
Propagates(kind, ignore_exc) ==
    IF kind = "none" THEN FALSE
    ELSE IF IsInstance(kind, "AlreadyFinishedError") THEN FALSE
    ELSE IF IsInstance(kind, "AlreadyProcessingError") THEN FALSE
    ELSE IF IsInstance(kind, "TemporaryResourceError") THEN FALSE
    ELSE IF \E cls \in ignore_exc : IsInstance(kind, cls) THEN FALSE
    ELSE TRUE

\* one turn of the for loop of line 47 once _process_request has ended with
\* outcome o: the exception leaves download(), or the loop goes on
Dispatch(d, o) ==
    IF Propagates(o.raised, d.ignore_exc)
    THEN [d EXCEPT !.state = "raised",
                   !.raised = o.raised, !.phase = o.phase]
    ELSE [d EXCEPT !.pos = d.pos + 1,
                   !.state = IF d.pos + 1 > NumRequests
                             THEN "returned" ELSE "running",
                   !.raised = o.raised, !.phase = o.phase]

\* download(args, ignore_exc) is called; as_requests(args) yields the
\* request NumRequests times
InitDownload ==
    /\ InitRunner
    /\ \E ignore_exc \in IgnoreChoices :
          driver = [state |-> "running", pos |-> 1,
                    ignore_exc |-> ignore_exc,
                    raised |-> "none", phase |-> "none"]
    /\ retries = 0

\* lines 47-54 and, when the call is skipped, lines 55-78
download_admission ==
    /\ driver.state = "running"
    /\ Admission(Downloader)
    /\ driver' = IF pc'[Downloader] = "idle"
                 THEN Dispatch(driver, outcome') ELSE driver
    /\ UNCHANGED retries

\* the end of the call of line 54 and lines 55-78
download_resolution ==
    /\ driver.state = "running"
    /\ save_status(Downloader)
    /\ driver' = Dispatch(driver, outcome')
    /\ UNCHANGED retries

NextDownload ==
    \/ Tick /\ UNCHANGED aux
    \/ download_admission
    \/ download_resolution
    \/ \E p \in Procs \ {Downloader} : Admission(p) /\ UNCHANGED aux
    \/ \E p \in Procs : force_download(p) /\ UNCHANGED aux
    \/ \E p \in Procs : load_status(p) /\ UNCHANGED aux
    \/ \E p \in Procs \ {Downloader} : save_status(p) /\ UNCHANGED aux

SpecDownload == InitDownload /\ [][NextDownload]_vars

\* ------------------------------------------------------------ vocabulary
InFlight(p) == pc[p] # "idle"

Running(p) == pc[p] = "download"

\* the step in which the call of caller p leaves _process_request after
\* having passed admission
CallEnds(p) == pc[p] = "except" /\ pc'[p] = "idle"

\* the step in which caller p runs the admission session of a new call
CallStarts(p) == Admission(p)

\* a step in which caller q holds an exclusive session on the request
InSession(q) == Admission(q) \/ load_status(q) \/ save_status(q)

Skipped(p, error) ==
    /\ pc'[p] = "idle"
    /\ outcome'.raised = error
    /\ outcome'.phase = "admission"
    /\ status' = status

\* ------------------------------------------------------------------ C1
\* C1: whatever the Work Executor did, the step in which an admitted call
\* returns or raises leaves the persisted status with processing = false.
C1_Cleanup ==
    [][\A p \in Procs : CallEnds(p) => status'.processing = FALSE]_vars

\* a call ended by re-raising an exception and the status is not processing
C1_Witness ==
    /\ outcome.phase = "execution"
    /\ outcome.raised = "BaseException"
    /\ ~status.processing

\* ------------------------------------------------------------------ C2
\* C2: once the persisted status is finished it stays finished, no call is
\* past admission while it is finished, and every call started while it is
\* finished raises AlreadyFinishedError without touching the status.
C2_Idempotence ==
    /\ [](status.finished => \A p \in Procs : ~InFlight(p))
    /\ [][status.finished =>
            /\ status'.finished
            /\ \A p \in Procs :
                 CallStarts(p) => Skipped(p, "AlreadyFinishedError")]_vars

\* a call on a finished request was answered AlreadyFinishedError
C2_Witness ==
    /\ status.finished
    /\ outcome.raised = "AlreadyFinishedError"
    /\ outcome.loaded.finished

\* ------------------------------------------------------------------ C3
\* C3: at most one caller is inside _force_download at any time, and a call
\* started while the persisted status is processing raises
\* AlreadyProcessingError in that same step, status untouched.
C3_MutualExclusion ==
    /\ [](Cardinality({p \in Procs : Running(p)}) <= 1)
    /\ [][status.processing =>
            \A p \in Procs :
               CallStarts(p) => Skipped(p, "AlreadyProcessingError")]_vars

\* one caller is in the Work Executor and another call was turned away
C3_Witness ==
    /\ \E p \in Procs : Running(p)
    /\ outcome.raised = "AlreadyProcessingError"
    /\ outcome.loaded.processing
    /\ status.processing

\* ------------------------------------------------------------------ C4
\* C4: for a request neither processing nor finished with a waiting_until,
\* a call started while waiting_until > truncated now + 1 s raises
\* TemporaryResourceError carrying that waiting_until and is not admitted;
\* a call started when now >= waiting_until is admitted.
C4_RetryDeadline ==
    [][\A p \in Procs :
         (/\ CallStarts(p)
          /\ ~status.processing
          /\ ~status.finished
          /\ status.waiting_until # None)
         =>
         /\ status.waiting_until > Truncate(now) + GraceSeconds * TicksPerSecond
              => /\ Skipped(p, "TemporaryResourceError")
                 /\ outcome'.waiting_until = status.waiting_until
         /\ now >= status.waiting_until
              => /\ pc'[p] = "download"
                 /\ status'.processing]_vars

\* a call was turned away with the deadline still persisted, and later, the
\* deadline reached, a call is in the Work Executor
C4_Witness ==
    /\ outcome.raised = "TemporaryResourceError"
    /\ outcome.phase = "admission"
    /\ outcome.waiting_until = status.waiting_until
    /\ status.waiting_until # None
    /\ now >= status.waiting_until
    /\ \E p \in Procs : Running(p)

\* ------------------------------------------------------------------ C5
\* C5 (as stated): the Work Executor never runs while now is earlier than
\* the persisted waiting_until.
C5_NeverEarly ==
    \A p \in Procs :
       Running(p) =>
          (status.waiting_until = None \/ now >= status.waiting_until)

\* C5 (amended): the Work Executor never runs while the persisted
\* waiting_until is later than truncated now + 1 s.
C5_NeverBeyondGrace ==
    \A p \in Procs :
       Running(p) =>
          \/ status.waiting_until = None
          \/ status.waiting_until
                <= Truncate(now) + GraceSeconds * TicksPerSecond

\* the Work Executor runs inside the grace window, before waiting_until
C5_Witness ==
    /\ \E p \in Procs : Running(p)
    /\ status.waiting_until # None
    /\ now < status.waiting_until

\* ------------------------------------------------------------------ C6
\* C6: between the session in which a resolution reloads the status and the
\* session in which it saves, no other caller runs a session on the request.
C6_OneSession ==
    [][\A p \in Procs :
         pc[p] = "except" =>
            \A q \in Procs \ {p} : ~InSession(q)]_vars

\* ------------------------------------------------------------------ C7
\* C7: when the Work Executor returned normally, the call returns normally
\* and saves processing = false, finished = true, failed = false.
C7_Success ==
    [][\A p \in Procs :
         CallEnds(p) /\ exc[p].kind = "none" =>
            /\ outcome'.raised = "none"
            /\ outcome'.signal = "none"
            /\ status'.processing = FALSE
            /\ status'.finished = TRUE
            /\ status'.failed = FALSE]_vars

\* a successful call on a request whose earlier attempt had failed
C7_Witness ==
    /\ outcome.phase = "execution"
    /\ outcome.signal = "none"
    /\ outcome.raised = "none"
    /\ outcome.loaded.failed
    /\ status.finished /\ ~status.failed /\ ~status.processing

\* ------------------------------------------------------------------ C8
\* C8: when the Work Executor raised PartiallyCompleted with deadline T, the
\* call raises nothing and saves finished = false, failed = false,
\* waiting_until = T, processing = false.
C8_Partial ==
    [][\A p \in Procs :
         CallEnds(p) /\ exc[p].kind = "PartiallyCompleted" =>
            /\ outcome'.raised = "none"
            /\ status'.processing = FALSE
            /\ status'.finished = FALSE
            /\ status'.failed = FALSE
            /\ status'.waiting_until = exc[p].waiting_until
            /\ exc[p].waiting_until # None]_vars

\* a call ended after PartiallyCompleted replaced an older deadline
C8_Witness ==
    /\ outcome.phase = "execution"
    /\ outcome.signal = "PartiallyCompleted"
    /\ outcome.raised = "none"
    /\ outcome.loaded.waiting_until # None
    /\ outcome.loaded.waiting_until # outcome.waiting_until
    /\ status.waiting_until = outcome.waiting_until
    /\ ~status.finished /\ ~status.failed /\ ~status.processing

\* ------------------------------------------------------------------ C9
\* C9: when the Work Executor raised a general ResourceError, the step in
\* which that error leaves the call has saved finished = true,
\* failed = true, processing = false, and the error raised is ResourceError.
C9_HardFailure ==
    [][\A p \in Procs :
         CallEnds(p) /\ exc[p].kind = "ResourceError" =>
            /\ outcome'.raised = "ResourceError"
            /\ status'.processing = FALSE
            /\ status'.finished = TRUE
            /\ status'.failed = TRUE
            /\ status'.waiting_until = local[p].waiting_until]_vars

\* a ResourceError left the call and the request is finished and failed
C9_Witness ==
    /\ outcome.phase = "execution"
    /\ outcome.raised = "ResourceError"
    /\ status.finished /\ status.failed /\ ~status.processing

\* ------------------------------------------------------------------ C10
\* C10: when the Work Executor raised TemporaryResourceError with deadline
\* T, the call re-raises it and saves failed = true, finished = false,
\* waiting_until = T, processing = false.
C10_TemporaryFailure ==
    [][\A p \in Procs :
         CallEnds(p) /\ exc[p].kind = "TemporaryResourceError" =>
            /\ outcome'.raised = "TemporaryResourceError"
            /\ outcome'.phase = "execution"
            /\ status'.processing = FALSE
            /\ status'.finished = FALSE
            /\ status'.failed = TRUE
            /\ status'.waiting_until = exc[p].waiting_until
            /\ exc[p].waiting_until # None]_vars

\* a TemporaryResourceError left the call; the request is failed, not
\* finished, and waits until the deadline of the error
C10_Witness ==
    /\ outcome.phase = "execution"
    /\ outcome.raised = "TemporaryResourceError"
    /\ status.failed /\ ~status.finished /\ ~status.processing
    /\ status.waiting_until = outcome.waiting_until
    /\ status.waiting_until > now

\* ------------------------------------------------------------------ C11
\* the kinds _force_download can raise that no except clause names
Unrecognized == {"BaseException", "ValueError"}

\* C11: when the Work Executor raised an exception that is none of
\* PartiallyCompleted, TemporaryResourceError, ResourceError, the call
\* re-raises it and saves failed = true, processing = false, with finished
\* and waiting_until as the resolution reloaded them.
C11_UnexpectedFailure ==
    [][\A p \in Procs :
         CallEnds(p) /\ exc[p].kind \in Unrecognized =>
            /\ outcome'.raised = exc[p].kind
            /\ outcome'.phase = "execution"
            /\ status'.processing = FALSE
            /\ status'.failed = TRUE
            /\ status'.finished = local[p].finished
            /\ status'.waiting_until = local[p].waiting_until]_vars

\* an unexpected exception left the call; the request is failed, not
\* finished, and still carries the deadline of an earlier attempt
C11_Witness ==
    /\ outcome.phase = "execution"
    /\ outcome.raised \in Unrecognized
    /\ status.failed /\ ~status.finished /\ ~status.processing
    /\ status.waiting_until # None
    /\ status.waiting_until = outcome.loaded.waiting_until

\* ------------------------------------------------------------------ C12
AdmissionSkips ==
    {"AlreadyProcessingError", "AlreadyFinishedError",
     "TemporaryResourceError"}

\* C12: a call that ends in its admission session raised one of the three
\* skips, saved nothing (the persisted status is what it was) and did not
\* reach the Work Executor.
C12_SkipsLeaveStatus ==
    [][\A p \in Procs :
         CallStarts(p) /\ pc'[p] = "idle" =>
            /\ outcome'.raised \in AdmissionSkips
            /\ outcome'.phase = "admission"
            /\ outcome'.loaded = status
            /\ status' = status
            /\ pc' = pc
            /\ exc' = exc]_vars

\* a call was skipped for its deadline and the status it loaded, deadline
\* included, is still the persisted one
C12_Witness ==
    /\ outcome.phase = "admission"
    /\ outcome.raised = "TemporaryResourceError"
    /\ outcome.loaded = status
    /\ status.waiting_until > now + GraceSeconds * TicksPerSecond
    /\ \A p \in Procs : ~InFlight(p)

\* ------------------------------------------------------------------ C13
\* the step in which one turn of the loop of download() ends
TurnEnds == driver' # driver

NotIgnored(kind, ignore_exc) ==
    \A cls \in ignore_exc : ~IsInstance(kind, cls)

\* C14 (as stated): a ResourceError or TemporaryResourceError raised by the
\* Work Executor leaves download() unless ignore_exc names it.
C14_ResourceErrorsPropagate ==
    [][(/\ TurnEnds
        /\ outcome'.phase = "execution"
        /\ outcome'.raised \in {"ResourceError", "TemporaryResourceError"}
        /\ NotIgnored(outcome'.raised, driver.ignore_exc))
       => driver'.state = "raised"]_vars

\* C14 (amended): a general ResourceError raised by the Work Executor
\* leaves download() unless ignore_exc names it; a TemporaryResourceError
\* raised by the Work Executor never leaves download(), the loop goes on.
C14_OnlyGeneralPropagates ==
    [][(TurnEnds /\ outcome'.phase = "execution") =>
          /\ (/\ outcome'.raised = "ResourceError"
               /\ NotIgnored("ResourceError", driver.ignore_exc))
              => driver'.state = "raised" /\ driver'.raised = "ResourceError"
          /\ outcome'.raised = "TemporaryResourceError"
              => /\ driver'.state # "raised"
                 /\ driver'.pos = driver.pos + 1]_vars

\* with an empty ignore_exc a TemporaryResourceError of the Work Executor
\* was swallowed and download() goes on with the second request
C14_Witness ==
    /\ driver.ignore_exc = {}
    /\ driver.raised = "TemporaryResourceError"
    /\ driver.phase = "execution"
    /\ driver.state = "running"
    /\ driver.pos = 2
    /\ status.failed /\ ~status.finished

\* ------------------------------------------------------------------ C15
\* C15: a call of the loop that is skipped at admission never makes
\* download() raise, whatever ignore_exc is; the loop moves on by exactly
\* one request, and it keeps running while requests are left.
C15_SkipsNeverPropagate ==
    [][/\ driver'.pos \in {driver.pos, driver.pos + 1}
       /\ (TurnEnds /\ outcome'.phase = "admission") =>
             /\ outcome'.raised \in AdmissionSkips
             /\ driver'.state # "raised"
             /\ driver'.pos = driver.pos + 1
             /\ driver'.state = "running" <=> driver'.pos <= NumRequests]_vars

\* the first request was skipped as already processing and download() is in
\* the Work Executor for the second one
C15_Witness ==
    /\ driver.raised = "AlreadyProcessingError"
    /\ driver.phase = "admission"
    /\ driver.pos = 2
    /\ driver.state = "running"
    /\ Running(Downloader)

\* ------------------------------------------------------------------ C16
Aware(d) == d = None \/ tzinfo(d)

\* C16: no status, persisted or local, and no exception ever carries a
\* timezone-naive waiting_until; while the ValueError of a signal built
\* with a naive deadline is pending, the persisted status is still what the
\* admission saved.
C16_NoNaiveDeadline ==
    /\ Aware(status.waiting_until)
    /\ Aware(outcome.waiting_until)
    /\ \A p \in Procs :
          /\ Aware(local[p].waiting_until)
          /\ Aware(exc[p].waiting_until)
          /\ (pc[p] \in {"finally", "except"} /\ exc[p].kind = "ValueError")
               => /\ status.processing
                  /\ ~status.finished /\ ~status.failed
                  /\ status.waiting_until = loaded[p].waiting_until

\* the ValueError of the constructor left the call: the request is failed
\* and keeps the timezone-aware deadline it had before
C16_Witness ==
    /\ outcome.raised = "ValueError"
    /\ outcome.phase = "execution"
    /\ status.failed /\ ~status.finished /\ ~status.processing
    /\ status.waiting_until # None
    /\ tzinfo(status.waiting_until)
    /\ status.waiting_until = outcome.loaded.waiting_until

\* ------------------------------------------------------------------ C17
\* the status says processing and no call is between admission and
\* resolution: the lock a terminated call left behind
StaleLock == status.processing /\ \A p \in Procs : ~InFlight(p)

\* C17: a stale lock stays: no step changes the status, every call started
\* raises AlreadyProcessingError and does not reach the Work Executor.
C17_StaleLockStays ==
    [][StaleLock =>
          /\ StaleLock'
          /\ status' = status
          /\ \A p \in Procs :
                CallStarts(p) => Skipped(p, "AlreadyProcessingError")]_vars

\* after a crash, with the deadline of an earlier attempt long passed, a
\* call was still answered AlreadyProcessingError
C17_Witness ==
    /\ StaleLock
    /\ outcome.raised = "AlreadyProcessingError"
    /\ outcome.loaded = status
    /\ status.waiting_until # None
    /\ now >= status.waiting_until + GraceSeconds * TicksPerSecond

\* ------------------------------------------------------------------ C18
\* C18: while a caller is inside _force_download, and until its resolution
\* saves, the persisted status is processing = true, finished = false,
\* failed = false with the waiting_until the admission loaded; while nobody
\* is past admission the status is not processing.
C18_Ordering ==
    /\ \A p \in Procs :
          InFlight(p) =>
             /\ status.processing
             /\ ~status.finished
             /\ ~status.failed
             /\ status.waiting_until = loaded[p].waiting_until
    /\ (\A p \in Procs : ~InFlight(p)) => ~status.processing

\* the Work Executor runs for a request whose earlier attempt had failed:
\* the admission has already saved failed = false
C18_Witness ==
    \E p \in Procs :
       /\ Running(p)
       /\ loaded[p].failed
       /\ status.processing /\ ~status.failed /\ ~status.finished

\* ------------------------------------------------------------------ C19
\* C19: no persisted status is processing and finished at once, and a call
\* started on a finished request is never answered AlreadyProcessingError.
C19_NeverProcessingAndFinished ==
    /\ [](~(status.processing /\ status.finished))
    /\ [][status.finished =>
            \A p \in Procs :
               CallStarts(p) =>
                  outcome'.raised # "AlreadyProcessingError"]_vars

\* a request finished by a hard failure answered a later call with
\* AlreadyFinishedError
C19_Witness ==
    /\ status.finished /\ status.failed /\ ~status.processing
    /\ outcome.raised = "AlreadyFinishedError"
    /\ outcome.loaded = status

\* ------------------------------------------------------------------ C20
\* C20: under SpecLoop the request eventually is, and then stays, finished
\* and not processing, with no caller past admission any more.
C20_EventuallyFinished ==
    <>[](/\ status.finished
         /\ ~status.processing
         /\ \A p \in Procs : ~InFlight(p))

\* the request is finished after the Work Executor had used up all its
\* unfinished attempts
C20_Witness ==
    /\ status.finished /\ ~status.processing
    /\ retries = MaxRetries
    /\ \A p \in Procs : ~InFlight(p)

====
